---- MODULE Spec2Model ----
(***************************************************************************)
(* Model of native/ex_gdal_nif/src/lib.rs: the NIF bridge that shares an   *)
(* open GDAL dataset behind a Mutex and marshals band pixels to bytes.     *)
(***************************************************************************)
EXTENDS Integers, Sequences, FiniteSets, TLC

\* ------------------------------------------------------------------ bounds
\* concurrent NIF calls (scheduler threads inside the NIF at one time)
NumCalls == 2
\* dataset resources that can be open at one time
NumHandles == 2
\* raster width, height and band count of the datasets on disk
MaxW == 2
MaxH == 2
MaxBands == 2

Calls == 1..NumCalls
Handles == 1..NumHandles
\* the Mutex owner field when the mutex is unlocked
NoCall == 0
\* the resource argument of a call that takes none (gdal_open)
NoHandle == 0

\* ------------------------------------------------------------ small helpers
Max(a, b) == IF a > b THEN a ELSE b
Min(a, b) == IF a < b THEN a ELSE b
Reverse(s) == [k \in 1..Len(s) |-> s[Len(s) + 1 - k]]

RECURSIVE Pow(_, _)
Pow(b, e) == IF e = 0 THEN 1 ELSE b * Pow(b, e - 1)

RECURSIVE Log2(_)
\* floor(log2 n), n >= 1
Log2(n) == IF n < 2 THEN 0 ELSE 1 + Log2(n \div 2)

\* ------------------------------------------------------------- GdalDataType
\* gdal::raster::GdalDataType, the band encodings the library can report
GdalDataTypeSeq ==
    <<"Unknown", "UInt8", "Int8", "UInt16", "Int16", "UInt32", "Int32",
      "UInt64", "Int64", "Float32", "Float64">>

GdalDataType == {GdalDataTypeSeq[k] : k \in 1..Len(GdalDataTypeSeq)}

\* the atoms module: every tag the bridge declares
atoms ==
    {"ok", "error", "unknown", "uint8", "int8", "uint16", "int16", "uint32",
     "int32", "uint64", "int64", "float32", "float64"}

\* size_of::<T>() of the Rust element types the read paths decode into
SizeOf(T) ==
    CASE T = "u8" -> 1
      [] T = "i16" -> 2
      [] T = "u16" -> 2
      [] T = "i32" -> 4
      [] T = "u32" -> 4
      [] T = "f32" -> 4
      [] T = "f64" -> 8


\* ------------------------------------------------- typed element encodings
\* An element of a decoded array is kept as its bytes in significance order
\* (most significant first); to_ne_bytes lays them out in host order.

\* byte k (0 = least significant) of a natural number below 2^31
ByteOf(n, k) == IF k >= 4 THEN 0 ELSE (n \div Pow(256, k)) % 256

\* two's complement of v in s bytes, most significant first
IntBytes(v, s) ==
    [j \in 1..s |->
        IF v >= 0 THEN ByteOf(v, s - j) ELSE 255 - ByteOf(-v - 1, s - j)]

\* IEEE 754 binary encoding of the integer v (|v| < 2^mbits), ebits exponent
\* bits and mbits fraction bits, most significant byte first
FloatBytes(v, ebits, mbits) ==
    LET a == IF v < 0 THEN -v ELSE v
        e == Log2(a)
        biased == e + Pow(2, ebits - 1) - 1
        frac == a - Pow(2, e)
        BitAt(i) ==
            IF v = 0 THEN 0
            ELSE IF i = 1 THEN (IF v < 0 THEN 1 ELSE 0)
            ELSE IF i <= 1 + ebits THEN (biased \div Pow(2, 1 + ebits - i)) % 2
            ELSE LET t == i - 1 - ebits
                 IN IF t <= e THEN (frac \div Pow(2, e - t)) % 2 ELSE 0
    IN [j \in 1..((1 + ebits + mbits) \div 8) |->
           BitAt(8 * j - 7) * 128 + BitAt(8 * j - 6) * 64 + BitAt(8 * j - 5) * 32
           + BitAt(8 * j - 4) * 16 + BitAt(8 * j - 3) * 8 + BitAt(8 * j - 2) * 4
           + BitAt(8 * j - 1) * 2 + BitAt(8 * j)]

\* the library's conversion of a pixel value into the requested Rust type
\* (GDAL clamps to the target range)
CastTo(T, v) ==
    CASE T = "u8" -> Max(0, Min(255, v))
      [] T = "u16" -> Max(0, Min(65535, v))
      [] T = "i16" -> Max(-32768, Min(32767, v))
      [] T = "u32" -> Max(0, v)
      [] OTHER -> v

\* the element of type T holding pixel value v
Element(T, v) ==
    CASE T = "f32" -> FloatBytes(v, 8, 23)
      [] T = "f64" -> FloatBytes(v, 11, 52)
      [] OTHER -> IntBytes(CastTo(T, v), SizeOf(T))


\* ---------------------------------------------------------- files on disk
\* A path is described by what the library finds there; NoFile is a path the
\* library cannot open, and the dataset of a handle that was never created.
NoFile == [exists |-> FALSE, enc |-> 1, w |-> 1, h |-> 1, n |-> 0]

File(e, w, h, n) == [exists |-> TRUE, enc |-> e, w |-> w, h |-> h, n |-> n]

\* band b of file f has the encoding b - 1 places after f.enc (cyclically)
BandEncoding(f, b) ==
    GdalDataTypeSeq[((f.enc + b - 2) % Len(GdalDataTypeSeq)) + 1]

\* files that carry a spatial reference, a geotransform and metadata
Georeferenced(f) == f.exists /\ f.enc % 2 = 0

\* the range an encoding can store; stored pixels lie inside it
StoredValue(enc, v) ==
    CASE enc = "UInt8" -> Max(0, Min(255, v))
      [] enc = "Int8" -> Max(-128, Min(127, v))
      [] enc \in {"UInt16", "UInt32", "UInt64"} -> Max(0, v)
      [] OTHER -> v

\* the value of pixel i (row-major, from 1) of band b
Pixel(f, b, i) ==
    StoredValue(BandEncoding(f, b),
                ((i * 37 + b * 101 + f.enc * 59 + f.w * 7) % 600) - 200)

\* ----------------------------------------------- the library (gdal crate)
\* Dataset::raster_count, Dataset::raster_size
raster_count(f) == f.n
raster_size(f) == <<f.w, f.h>>

\* (mutant) band indices taken as 0-based
rasterband_ZeroBased(f, band_idx) == band_idx >= 0 /\ band_idx < raster_count(f)

\* Dataset::rasterband(band_idx): Ok for the 1-based indices of the bands
rasterband(f, band_idx) == band_idx >= 1 /\ band_idx <= raster_count(f)

\* RasterBand::band_type
band_type(f, band_idx) == BandEncoding(f, band_idx)

\* RasterBand::no_data_value: odd bands carry the sentinel 255.0
no_data_value(f, band_idx) ==
    IF band_idx % 2 = 1 THEN <<"Some", Element("f64", 255)>> ELSE <<"None">>

\* RasterBand::read_as::<T>(window, window_size, size, None) with
\* size = window_size: Ok(buffer of size.0 * size.1 elements of T) when the
\* window is empty or inside the raster, Err otherwise
WindowOk(f, win) ==
    \/ win[3] < 1
    \/ win[4] < 1
    \/ /\ win[1] >= 0
       /\ win[2] >= 0
       /\ win[1] + win[3] <= f.w
       /\ win[2] + win[4] <= f.h

read_as(f, band_idx, T, win) ==
    [k \in 1..(win[3] * win[4]) |->
        LET row == win[2] + ((k - 1) \div win[3])
            col == win[1] + ((k - 1) % win[3])
        IN Element(T, Pixel(f, band_idx, row * f.w + col + 1))]

\* RasterBand::read_band_as::<T>(): the whole band, width * height elements
read_band_as(f, band_idx, T) == read_as(f, band_idx, T, <<0, 0, f.w, f.h>>)


\* ------------------------------------------------------------------ state
VARIABLES
    pc,        \* per call: "idle", "opening", "lock", "lockerr", "held", "io", "done"
    req,       \* per call: the NIF invoked and its arguments
    result,    \* per call: what the NIF returned to the host
    acquired,  \* per call: how often this invocation has taken a mutex
    dataset,   \* per handle: DatasetResource.inner's Dataset (NoFile: not created)
    holder,    \* per handle: the call owning DatasetResource.inner's MutexGuard
    poisoned,  \* per handle: the Mutex's poison flag
    endian     \* byte order of the host the NIF library was built for

vars == <<pc, req, result, acquired, dataset, holder, poisoned, endian>>

\* the NIFs registered by rustler::init!
MetaOps ==
    {"raster_count", "raster_size", "band_type", "no_data_value",
     "spatial_ref_wkt", "spatial_ref_proj4", "geo_transform", "metadata_item",
     "driver_name"}
ReadOps == {"read_band", "read_band_window"}
\* the NIFs that take a band_idx argument
BandOps == {"band_type", "no_data_value", "read_band", "read_band_window"}
HandleOps == MetaOps \cup ReadOps

NoWindow == <<0, 0, 0, 0>>
NoResult == [kind |-> "none", value |-> <<>>]
NoReq ==
    [op |-> "none", res |-> NoHandle, band_idx |-> 0, win |-> NoWindow,
     key |-> "", path |-> NoFile]

Ok(v) == [kind |-> "ok", value |-> v]
Err(kind) == [kind |-> kind, value |-> <<>>]

\* ------------------------------------------------------ type dispatch
\* (mutant) the Int16 arm decoding as i32
ReadType_Int16AsI32(dt) ==
    CASE dt = "UInt8" -> "u8"
      [] dt = "Int16" -> "i32"
      [] dt = "UInt16" -> "u16"
      [] dt = "Int32" -> "i32"
      [] dt = "UInt32" -> "u32"
      [] dt = "Float32" -> "f32"
      [] dt = "Float64" -> "f64"
      [] OTHER -> "f64"

\* the match of gdal_read_band: the Rust type each arm decodes into
ReadType(dt) ==
    CASE dt = "UInt8" -> "u8"
      [] dt = "Int16" -> "i16"
      [] dt = "UInt16" -> "u16"
      [] dt = "Int32" -> "i32"
      [] dt = "UInt32" -> "u32"
      [] dt = "Float32" -> "f32"
      [] dt = "Float64" -> "f64"
      [] OTHER -> "f64"

\* (mutant) the reserved tags given out for their encodings
data_type_to_atom_Reserved(dt) ==
    CASE dt = "UInt8" -> "uint8"
      [] dt = "Int8" -> "int8"
      [] dt = "UInt16" -> "uint16"
      [] dt = "Int16" -> "int16"
      [] dt = "UInt32" -> "uint32"
      [] dt = "Int32" -> "int32"
      [] dt = "UInt64" -> "uint64"
      [] dt = "Int64" -> "int64"
      [] dt = "Float32" -> "float32"
      [] dt = "Float64" -> "float64"
      [] OTHER -> "unknown"

\* data_type_to_atom: the tag band_type reports
data_type_to_atom(dt) ==
    CASE dt = "UInt8" -> "uint8"
      [] dt = "UInt16" -> "uint16"
      [] dt = "Int16" -> "int16"
      [] dt = "UInt32" -> "uint32"
      [] dt = "Int32" -> "int32"
      [] dt = "Float32" -> "float32"
      [] dt = "Float64" -> "float64"
      [] OTHER -> "unknown"

\* ------------------------------------------------------------ marshalling
\* (mutant) to_be_bytes in place of to_ne_bytes
to_ne_bytes_BigEndian(v) == v

\* v.to_ne_bytes(): the element's bytes in host order
to_ne_bytes(v) == IF endian = "little" THEN Reverse(v) ELSE v

\* buf.data().to_vec() of a Vec<u8>
to_vec(buf) == [k \in 1..Len(buf) |-> buf[k][1]]

RECURSIVE flat_map_to_ne_bytes(_)
\* buf.data().iter().flat_map(|v| v.to_ne_bytes()).collect::<Vec<u8>>()
flat_map_to_ne_bytes(buf) ==
    IF buf = <<>> THEN <<>>
    ELSE to_ne_bytes(Head(buf)) \o flat_map_to_ne_bytes(Tail(buf))

\* the arms of `let bytes = match band_type`, after the typed read
band_bytes(dt, buf) ==
    IF dt = "UInt8" THEN to_vec(buf) ELSE flat_map_to_ne_bytes(buf)

\* NewBinary::new(env, size)
NewBinary(size) == [k \in 1..size |-> 0]

\* binary.as_mut_slice().copy_from_slice(src)
copy_from_slice(binary, src) == [k \in 1..Len(binary) |-> src[k]]

\* the bytes gdal_read_band returns for band band_idx of f
gdal_read_band_ok(f, band_idx) ==
    LET dt == band_type(f, band_idx)
        bytes == band_bytes(dt, read_band_as(f, band_idx, ReadType(dt)))
    IN copy_from_slice(NewBinary(Len(bytes)), bytes)

\* (mutant) the windowed read dispatching on the band's type like gdal_read_band
gdal_read_band_window_Typed(f, band_idx, win) ==
    LET dt == band_type(f, band_idx)
        bytes == band_bytes(dt, read_as(f, band_idx, ReadType(dt), win))
    IN copy_from_slice(NewBinary(Len(bytes)), bytes)

\* the bytes gdal_read_band_window returns: always read as u8, copied verbatim
gdal_read_band_window_ok(f, band_idx, win) ==
    LET data == to_vec(read_as(f, band_idx, "u8", win))
    IN copy_from_slice(NewBinary(Len(data)), data)

\* ---------------------------------------------------------------- the lock
\* (mutant) lock() that returns without waiting for the owner
MutexFree_NoExclusion(h) == TRUE

\* Mutex::lock() can take the mutex of handle h
MutexFree(h) == holder[h] = NoCall

\* (mutant) lock() that hands out the guard of a poisoned mutex
LockOutcome_IgnorePoison(h) == "held"

\* where lock()'s Result sends the call: Err(PoisonError) into map_err and
\* `?`, Ok(guard) into the body
LockOutcome(h) == IF poisoned[h] THEN "lockerr" ELSE "held"

\* (mutant) a guard that is leaked instead of dropped
DropGuard_Leak(h) == holder

\* the MutexGuard `ds` going out of scope at a return or while unwinding
DropGuard(h) == [holder EXCEPT ![h] = NoCall]

\* (mutant) a PoisonError that is kept alive, and its guard with it
DropPoisonError_Keep(h) == holder

\* the PoisonError, and the guard inside it, dropped at the end of map_err
DropPoisonError(h) == [holder EXCEPT ![h] = NoCall]

\* ------------------------------------------------------- metadata results
\* what a metadata NIF returns once it holds the guard on dataset f
MetaResult(r, f) ==
    CASE r.op = "raster_count" -> Ok(raster_count(f))
      [] r.op = "raster_size" -> Ok(raster_size(f))
      [] r.op = "band_type" ->
            IF rasterband(f, r.band_idx)
            THEN Ok(data_type_to_atom(band_type(f, r.band_idx)))
            ELSE Err("BandError")
      [] r.op = "no_data_value" ->
            IF rasterband(f, r.band_idx)
            THEN Ok(no_data_value(f, r.band_idx))
            ELSE Err("BandError")
      [] r.op = "spatial_ref_wkt" ->
            IF Georeferenced(f) THEN Ok("WKT") ELSE Err("LibraryError")
      [] r.op = "spatial_ref_proj4" ->
            IF Georeferenced(f) THEN Ok("PROJ4") ELSE Err("LibraryError")
      [] r.op = "geo_transform" ->
            IF Georeferenced(f)
            THEN Ok(<<0, 1, 0, f.h, 0, -1>>)
            ELSE Err("LibraryError")
      [] r.op = "metadata_item" ->
            IF Georeferenced(f) /\ r.key = "AREA_OR_POINT"
            THEN Ok(<<"Some", "Area">>)
            ELSE Ok(<<"None">>)
      [] r.op = "driver_name" -> Ok("GTiff")

\* what a read NIF returns when the library's read comes back (ioerr: the
\* read failed on the device)
ReadResult(r, f, ioerr) ==
    IF r.op = "read_band"
    THEN IF ioerr THEN Err("LibraryError")
         ELSE Ok(gdal_read_band_ok(f, r.band_idx))
    ELSE IF ioerr \/ ~WindowOk(f, r.win) THEN Err("LibraryError")
         ELSE Ok(gdal_read_band_window_ok(f, r.band_idx, r.win))

\* ---------------------------------------------------------------- actions
OpenHandles == {h \in Handles : dataset[h].exists}
Opening == {c \in Calls : pc[c] = "opening" /\ req[c].path.exists}

\* the requests the host can make now, with arguments from the given sets
Requests(files, idxs, wins, keys, cap) ==
    {[NoReq EXCEPT !.op = "open", !.path = p] :
        p \in {q \in files :
                 q.exists =>
                   Cardinality(OpenHandles) + Cardinality(Opening) < cap}}
    \cup {[NoReq EXCEPT !.op = o, !.res = h] :
            o \in MetaOps \ (BandOps \cup {"metadata_item"}), h \in OpenHandles}
    \cup {[NoReq EXCEPT !.op = "metadata_item", !.res = h, !.key = k] :
            h \in OpenHandles, k \in keys}
    \cup {[NoReq EXCEPT !.op = o, !.res = h, !.band_idx = i] :
            o \in BandOps \ {"read_band_window"}, h \in OpenHandles, i \in idxs}
    \cup {[NoReq EXCEPT !.op = "read_band_window", !.res = h, !.band_idx = i,
                        !.win = w] :
            h \in OpenHandles, i \in idxs, w \in wins}

\* the host calls a NIF on scheduler thread c
Invoke(c, files, idxs, wins, keys, cap) ==
    /\ pc[c] = "idle"
    /\ \E r \in Requests(files, idxs, wins, keys, cap) :
          /\ req' = [req EXCEPT ![c] = r]
          /\ pc' = [pc EXCEPT ![c] = IF r.op = "open" THEN "opening" ELSE "lock"]
    /\ result' = [result EXCEPT ![c] = NoResult]
    /\ acquired' = [acquired EXCEPT ![c] = 0]
    /\ UNCHANGED <<dataset, holder, poisoned, endian>>

\* gdal_open: Dataset::open returns; a new resource wraps the dataset
OpenFinish(c) ==
    /\ pc[c] = "opening"
    /\ pc' = [pc EXCEPT ![c] = "done"]
    /\ IF req[c].path.exists
       THEN LET h == CHOOSE x \in Handles \ OpenHandles :
                        \A y \in Handles \ OpenHandles : x <= y
            IN /\ dataset' = [dataset EXCEPT ![h] = req[c].path]
               /\ result' = [result EXCEPT ![c] = Ok(h)]
       ELSE /\ result' = [result EXCEPT ![c] = Err("OpenError")]
            /\ UNCHANGED dataset
    /\ UNCHANGED <<req, acquired, holder, poisoned, endian>>

\* resource.inner.lock(): blocks until the mutex is free, takes it, and
\* returns Err(PoisonError(guard)) when the poison flag is set
Lock(c) ==
    /\ pc[c] = "lock"
    /\ MutexFree(req[c].res)
    /\ holder' = [holder EXCEPT ![req[c].res] = c]
    /\ acquired' = [acquired EXCEPT ![c] = acquired[c] + 1]
    /\ pc' = [pc EXCEPT ![c] = LockOutcome(req[c].res)]
    /\ UNCHANGED <<req, result, dataset, poisoned, endian>>

\* .map_err(|e| format!("{e}"))?: the PoisonError and its guard are dropped
\* and the NIF returns the error string
LockErr(c) ==
    /\ pc[c] = "lockerr"
    /\ holder' = DropPoisonError(req[c].res)
    /\ result' = [result EXCEPT ![c] = Err("LockError")]
    /\ pc' = [pc EXCEPT ![c] = "done"]
    /\ UNCHANGED <<req, acquired, dataset, poisoned, endian>>

\* the body of a metadata NIF, to its return
MetaQuery(c) ==
    /\ pc[c] = "held"
    /\ req[c].op \in MetaOps
    /\ result' = [result EXCEPT ![c] = MetaResult(req[c], dataset[req[c].res])]
    /\ holder' = DropGuard(req[c].res)
    /\ pc' = [pc EXCEPT ![c] = "done"]
    /\ UNCHANGED <<req, acquired, dataset, poisoned, endian>>

\* gdal_read_band / gdal_read_band_window: ds.rasterband(band_idx)?, then the
\* library's read starts
ReadStart(c) ==
    /\ pc[c] = "held"
    /\ req[c].op \in ReadOps
    /\ IF rasterband(dataset[req[c].res], req[c].band_idx)
       THEN /\ pc' = [pc EXCEPT ![c] = "io"]
            /\ UNCHANGED <<result, holder>>
       ELSE /\ result' = [result EXCEPT ![c] = Err("BandError")]
            /\ holder' = DropGuard(req[c].res)
            /\ pc' = [pc EXCEPT ![c] = "done"]
    /\ UNCHANGED <<req, acquired, dataset, poisoned, endian>>

\* the library's read returns; the bytes are marshalled and returned
ReadFinish(c) ==
    /\ pc[c] = "io"
    /\ \E ioerr \in BOOLEAN :
          result' = [result EXCEPT
                       ![c] = ReadResult(req[c], dataset[req[c].res], ioerr)]
    /\ holder' = DropGuard(req[c].res)
    /\ pc' = [pc EXCEPT ![c] = "done"]
    /\ UNCHANGED <<req, acquired, dataset, poisoned, endian>>

\* NewBinary::new panics (the runtime cannot allocate the binary): unwinding
\* drops the guard, which poisons the mutex; rustler raises in the host
Panic(c) ==
    /\ pc[c] = "io"
    /\ poisoned' = [poisoned EXCEPT ![req[c].res] = TRUE]
    /\ holder' = DropGuard(req[c].res)
    /\ result' = [result EXCEPT ![c] = Err("panic")]
    /\ pc' = [pc EXCEPT ![c] = "done"]
    /\ UNCHANGED <<req, acquired, dataset, endian>>

\* the NIF's return value reaches the calling process; the scheduler thread
\* is free for the next call
Deliver(c) ==
    /\ pc[c] = "done"
    /\ pc' = [pc EXCEPT ![c] = "idle"]
    /\ req' = [req EXCEPT ![c] = NoReq]
    /\ result' = [result EXCEPT ![c] = NoResult]
    /\ acquired' = [acquired EXCEPT ![c] = 0]
    /\ UNCHANGED <<dataset, holder, poisoned, endian>>

\* every step of call c inside a NIF
Step(c) ==
    \/ OpenFinish(c)
    \/ Lock(c)
    \/ LockErr(c)
    \/ MetaQuery(c)
    \/ ReadStart(c)
    \/ ReadFinish(c)
    \/ Panic(c)
    \/ Deliver(c)

\* ---------------------------------------------------------- specifications
Init ==
    /\ pc = [c \in Calls |-> "idle"]
    /\ req = [c \in Calls |-> NoReq]
    /\ result = [c \in Calls |-> NoResult]
    /\ acquired = [c \in Calls |-> 0]
    /\ dataset = [h \in Handles |-> NoFile]
    /\ holder = [h \in Handles |-> NoCall]
    /\ poisoned = [h \in Handles |-> FALSE]
    /\ endian \in {"little", "big"}

\* The disk of the concurrency specifications: a one-band georeferenced
\* raster, a raster with no band and no georeferencing, and a path that does
\* not open.
ConcFiles == {File(2, 1, 1, 1), File(5, 1, 1, 0), NoFile}
ConcIdx == {1}
ConcWins == {<<0, 0, 1, 1>>}
ConcKeys == {"AREA_OR_POINT"}

\* Spec: NumCalls concurrent callers sharing one handle.
Next ==
    \E c \in Calls :
        \/ Invoke(c, ConcFiles, ConcIdx, ConcWins, ConcKeys, 1)
        \/ OpenFinish(c)
        \/ Lock(c)
        \/ LockErr(c)
        \/ MetaQuery(c)
        \/ ReadStart(c)
        \/ ReadFinish(c)
        \/ Panic(c)
        \/ Deliver(c)

Spec == Init /\ [][Next]_vars

\* FairSpec: two callers over up to NumHandles handles. Every step inside a
\* NIF is taken once it stays possible (the library calls return), and a
\* caller that finds the mutex free again and again gets it (strong fairness).
PairCalls == {1, 2}
\* every handle holds the one-band raster; band index 2 does not resolve
FairFiles == {File(2, 1, 1, 1), NoFile}
FairIdx == {1, 2}

FairNext ==
    \E c \in PairCalls :
        \/ Invoke(c, FairFiles, FairIdx, ConcWins, ConcKeys, NumHandles)
        \/ OpenFinish(c)
        \/ Lock(c)
        \/ LockErr(c)
        \/ MetaQuery(c)
        \/ ReadStart(c)
        \/ ReadFinish(c)
        \/ Panic(c)
        \/ Deliver(c)

Fairness ==
    \A c \in PairCalls :
        /\ SF_vars(Lock(c))
        /\ WF_vars(OpenFinish(c) \/ LockErr(c) \/ MetaQuery(c) \/ ReadStart(c)
                     \/ ReadFinish(c) \/ Panic(c))

\* the rasters of FairFiles hold single bytes, which read the same in either
\* byte order: one host stands for both
FairInit == Init /\ endian = "little"

FairSpec == FairInit /\ [][FairNext]_vars /\ Fairness

\* DataSpec: one caller on one handle, over every raster shape, encoding,
\* band index and window within the bounds.
DataFiles ==
    {File(e, w, h, n) :
        e \in 1..Len(GdalDataTypeSeq), w \in 1..MaxW, h \in 1..MaxH,
        n \in 1..MaxBands}
    \cup {File(1, 1, 1, 0), NoFile}
DataIdx == 0..(MaxBands + 1)
DataWins ==
    {<<o[1], o[2], w, h>> :
        o \in ((-1)..1) \X ((-1)..1), w \in 0..MaxW, h \in 0..MaxH}
DataKeys == {"AREA_OR_POINT", "TIFFTAG_SOFTWARE"}
DataCalls == {1}

DataNext ==
    \E c \in DataCalls :
        \/ Invoke(c, DataFiles, DataIdx, DataWins, DataKeys, 1)
        \/ OpenFinish(c)
        \/ Lock(c)
        \/ LockErr(c)
        \/ MetaQuery(c)
        \/ ReadStart(c)
        \/ ReadFinish(c)
        \/ Panic(c)
        \/ Deliver(c)

DataSpec == Init /\ [][DataNext]_vars

\* =================================================================== claims
InFlight == {"opening", "lock", "lockerr", "held", "io"}

\* call c is between taking the guard and returning: it can touch the Dataset
InDataset(c) == pc[c] \in {"held", "io"}

\* call c has returned to the host and has a handle argument
Returned(c) == pc[c] = "done" /\ req[c].op \in HandleOps

\* call c came back from the body of its NIF (not from a failed lock() or
\* a panic)
BodyReturned(c) == Returned(c) /\ result[c].kind \notin {"LockError", "panic"}

\* band index i names no band of dataset f
OutOfRange(f, i) == i <= 0 \/ i > raster_count(f)

\* the dataset call c's handle refers to
DatasetOf(c) == dataset[req[c].res]

\* the encoding of the band call c names
EncodingOf(c) == band_type(DatasetOf(c), req[c].band_idx)

\* the seven supported encodings and their element sizes in bytes
EncodingSize ==
    [UInt8 |-> 1, Int16 |-> 2, UInt16 |-> 2, Int32 |-> 4, UInt32 |-> 4,
     Float32 |-> 4, Float64 |-> 8]
Supported == DOMAIN EncodingSize

\* the tag of the same name as each supported encoding
TagOf ==
    [UInt8 |-> "uint8", Int16 |-> "int16", UInt16 |-> "uint16",
     Int32 |-> "int32", UInt32 |-> "uint32", Float32 |-> "float32",
     Float64 |-> "float64"]

\* the element width a caller assumes from a band_type tag
TagSize ==
    [uint8 |-> 1, int8 |-> 1, int16 |-> 2, uint16 |-> 2, int32 |-> 4,
     uint32 |-> 4, int64 |-> 8, uint64 |-> 8, float32 |-> 4, float64 |-> 8,
     unknown |-> 8]

\* ------------------------------------------------------------------- C1
\* C1: whenever a call is inside the dataset (between taking the guard and
\* returning) it is the owner of the handle's mutex, and no other call on the
\* same handle is inside the dataset at the same time.
C1_MutualExclusion ==
    \A c \in Calls :
        InDataset(c) =>
            /\ holder[req[c].res] = c
            /\ \A d \in Calls \ {c} : ~(InDataset(d) /\ req[d].res = req[c].res)

\* a read is inside the library while another call on the handle waits
C1_Witness ==
    \E c \in Calls, d \in Calls :
        /\ c # d
        /\ pc[c] = "io"
        /\ pc[d] = "lock"
        /\ req[d].res = req[c].res

\* ------------------------------------------------------------------- C2
\* C2: a successful read_band of a band whose encoding E is one of the seven
\* supported returns a binary, allocated and filled, of exactly
\* width * height * sizeof(E) bytes.
C2_ReadBandLength ==
    \A c \in Calls :
        (Returned(c) /\ req[c].op = "read_band" /\ result[c].kind = "ok"
           /\ EncodingOf(c) \in Supported) =>
            Len(result[c].value)
              = DatasetOf(c).w * DatasetOf(c).h * EncodingSize[EncodingOf(c)]

\* a 16-bit band of more than one pixel has been read
C2_Witness ==
    \E c \in Calls :
        /\ Returned(c)
        /\ req[c].op = "read_band"
        /\ result[c].kind = "ok"
        /\ EncodingOf(c) = "Int16"
        /\ DatasetOf(c).w * DatasetOf(c).h > 1
        /\ Len(result[c].value) = 2 * DatasetOf(c).w * DatasetOf(c).h

\* ------------------------------------------------------------------- C3
\* C3: band_type answers unknown exactly for the encodings outside the seven
\* supported, and the tag named like the encoding otherwise (never int8,
\* uint64 or int64); read_band of an unknown-tagged band returns
\* width * height * 8 bytes and fails only when the library's read fails;
\* and the two dispatches agree: the bytes read_band returns always have the
\* element width of the tag band_type gives the band.
C3_UnknownEncodings ==
    \A c \in Calls :
        /\ (Returned(c) /\ req[c].op = "band_type" /\ result[c].kind = "ok") =>
              /\ (result[c].value = "unknown") <=> (EncodingOf(c) \notin Supported)
              /\ EncodingOf(c) \in Supported
                    => result[c].value = TagOf[EncodingOf(c)]
              /\ result[c].value \notin {"int8", "uint64", "int64"}
        /\ (BodyReturned(c) /\ req[c].op = "read_band"
              /\ result[c].kind # "BandError"
              /\ EncodingOf(c) \notin Supported) =>
              /\ result[c].kind \in {"ok", "LibraryError"}
              /\ ReadResult(req[c], DatasetOf(c), FALSE).kind = "ok"
        /\ (Returned(c) /\ req[c].op = "read_band" /\ result[c].kind = "ok") =>
              /\ EncodingOf(c) \notin Supported =>
                    Len(result[c].value) = DatasetOf(c).w * DatasetOf(c).h * 8
              /\ Len(result[c].value)
                    = DatasetOf(c).w * DatasetOf(c).h
                        * TagSize[data_type_to_atom(EncodingOf(c))]

\* a band of an unsupported encoding has been read in full
C3_Witness ==
    \E c \in Calls :
        /\ Returned(c)
        /\ req[c].op = "read_band"
        /\ result[c].kind = "ok"
        /\ EncodingOf(c) = "Int8"
        /\ data_type_to_atom(EncodingOf(c)) = "unknown"
        /\ Len(result[c].value) = DatasetOf(c).w * DatasetOf(c).h * 8

\* ------------------------------------------------------------------- C4
\* C4: a successful read_band_window returns exactly w * h bytes, whatever
\* the band's encoding.
C4_WindowLength ==
    \A c \in Calls :
        (Returned(c) /\ req[c].op = "read_band_window" /\ result[c].kind = "ok")
            => Len(result[c].value) = req[c].win[3] * req[c].win[4]

\* a window of several pixels of a 64-bit float band has been read
C4_Witness ==
    \E c \in Calls :
        /\ Returned(c)
        /\ req[c].op = "read_band_window"
        /\ result[c].kind = "ok"
        /\ EncodingOf(c) = "Float64"
        /\ req[c].win[3] * req[c].win[4] > 1
        /\ Len(result[c].value) = req[c].win[3] * req[c].win[4]

\* ------------------------------------------------------------------- C5
\* a step in which call c, on a handle whose mutex is poisoned, fails as it
\* must: from lock() it goes only to the error path, and from there it
\* returns LockError
FailsOnPoison(c) ==
    (pc[c] \in {"lock", "lockerr"} /\ poisoned[req[c].res]) =>
        /\ pc'[c] \in {"lock", "lockerr", "done"}
        /\ pc'[c] = "done" => result'[c].kind = "LockError"

\* C5 as stated: on a poisoned handle every call returns LockError at once;
\* it never waits for the mutex, never touches the dataset and returns no
\* success value.
C5_Original ==
    [][\A c \in Calls :
          /\ FailsOnPoison(c)
          /\ (pc[c] \in InFlight \ {"opening"} /\ poisoned[req[c].res]) =>
                /\ ~InDataset(c)
                /\ pc[c] = "lock" => MutexFree(req[c].res)]_vars

\* C5 as amended: on a poisoned handle every call returns LockError without
\* touching the dataset and with no success value; lock() still takes the
\* mutex first, so the call may wait, but only for another failing call that
\* holds the guard it is about to drop.
C5_PoisonedReturnsLockError ==
    [][\A c \in Calls :
          /\ FailsOnPoison(c)
          /\ (pc[c] \in InFlight \ {"opening"} /\ poisoned[req[c].res]) =>
                /\ ~InDataset(c)
                /\ (pc[c] = "lock" /\ ~MutexFree(req[c].res)) =>
                      pc[holder[req[c].res]] = "lockerr"]_vars

\* a call has come back with LockError from a poisoned handle
C5_Witness ==
    \E c \in Calls :
        /\ Returned(c)
        /\ poisoned[req[c].res]
        /\ acquired[c] = 1
        /\ result[c].kind = "LockError"

\* ------------------------------------------------------------------- C6
\* C6 as stated: band_type, no_data_value, read_band and read_band_window
\* return BandError, and nothing else, exactly for the indices outside
\* 1..raster_count; and raster_count and raster_size return the same
\* BandError for the out-of-range indices.
C6_Original ==
    \A c \in Calls :
        BodyReturned(c) =>
            /\ req[c].op \in BandOps =>
                  /\ (result[c].kind = "BandError")
                        <=> OutOfRange(DatasetOf(c), req[c].band_idx)
                  /\ result[c].kind = "BandError" => result[c].value = <<>>
            /\ req[c].op \in {"raster_count", "raster_size"} =>
                  \A i \in DataIdx :
                      OutOfRange(DatasetOf(c), i) => result[c].kind = "BandError"

\* C6 as amended: the four band-indexed operations return BandError, and
\* nothing else, exactly for the indices outside 1..raster_count;
\* raster_count and raster_size take no band index and never return
\* BandError.
C6_BandIndexOneBased ==
    \A c \in Calls :
        BodyReturned(c) =>
            /\ req[c].op \in BandOps =>
                  /\ (result[c].kind = "BandError")
                        <=> OutOfRange(DatasetOf(c), req[c].band_idx)
                  /\ result[c].kind = "BandError" => result[c].value = <<>>
            /\ req[c].op \in {"raster_count", "raster_size"} =>
                  result[c].kind = "ok"

\* the last band of a raster with several bands has been resolved
C6_Witness ==
    \E c \in Calls :
        /\ BodyReturned(c)
        /\ req[c].op \in BandOps
        /\ raster_count(DatasetOf(c)) > 1
        /\ req[c].band_idx = raster_count(DatasetOf(c))
        /\ result[c].kind = "ok"

\* ------------------------------------------------------------------- C7
\* C7: a call takes the mutex at most once, a call that is not running (it
\* has not started, or has returned by any path) owns no mutex, and a handle
\* no call is running on has its mutex free.
C7_LockPerOperation ==
    /\ \A c \in Calls :
          /\ acquired[c] <= 1
          /\ pc[c] \in {"idle", "opening", "done"} =>
                \A h \in Handles : holder[h] # c
    /\ \A h \in Handles :
          (\A c \in Calls : pc[c] \in {"lock", "lockerr", "held", "io"}
                              => req[c].res # h)
              => holder[h] = NoCall

\* a call has returned early with BandError or LibraryError after taking
\* the mutex, and the mutex is free
C7_Witness ==
    \E c \in Calls :
        /\ Returned(c)
        /\ acquired[c] = 1
        /\ result[c].kind \in {"BandError", "LibraryError"}
        /\ holder[req[c].res] = NoCall

\* ------------------------------------------------------------------- C8
\* C8 as stated: only open, read_band and read_band_window are ever inside
\* device I/O, and a metadata query never waits on device I/O: it is never
\* blocked in lock() while the owner of the mutex is inside a read.
C8_MetadataNeverWaitsOnIO ==
    /\ \A c \in Calls :
          pc[c] \in {"opening", "io"} => req[c].op \in ReadOps \cup {"open"}
    /\ \A c \in Calls, d \in Calls :
          ~(/\ pc[c] = "lock"
            /\ req[c].op \in MetaOps
            /\ holder[req[c].res] = d
            /\ pc[d] = "io")

\* ------------------------------------------------------------------- C9
\* the array the library decoded for read_band call c, and its element width
DecodedOf(c) ==
    read_band_as(DatasetOf(c), req[c].band_idx, ReadType(EncodingOf(c)))
WidthOf(c) == SizeOf(ReadType(EncodingOf(c)))

\* byte k (0 = first in memory) of element e on this host
NativeByte(e, k) == IF endian = "little" THEN e[Len(e) - k] ELSE e[k + 1]

\* C9: the bytes read_band returns are the elements of the decoded array in
\* array order, each as its s bytes in the host's byte order, with nothing
\* between, before or after them; for uint8 they are the array itself.
C9_NativeEndianLayout ==
    \A c \in Calls :
        (Returned(c) /\ req[c].op = "read_band" /\ result[c].kind = "ok") =>
            /\ Len(result[c].value) = Len(DecodedOf(c)) * WidthOf(c)
            /\ Len(DecodedOf(c)) = DatasetOf(c).w * DatasetOf(c).h
            /\ \A i \in 0..(Len(DecodedOf(c)) - 1) :
                  \A k \in 0..(WidthOf(c) - 1) :
                      result[c].value[i * WidthOf(c) + k + 1]
                        = NativeByte(DecodedOf(c)[i + 1], k)
            /\ EncodingOf(c) = "UInt8" =>
                  result[c].value
                    = [i \in 1..Len(DecodedOf(c)) |-> DecodedOf(c)[i][1]]

\* on a little-endian host a band of several multi-byte elements, the first
\* of which is not the same read backwards, has been returned
C9_Witness ==
    \E c \in Calls :
        /\ Returned(c)
        /\ req[c].op = "read_band"
        /\ result[c].kind = "ok"
        /\ endian = "little"
        /\ WidthOf(c) > 1
        /\ Len(DecodedOf(c)) > 1
        /\ DecodedOf(c)[1] # Reverse(DecodedOf(c)[1])

\* ------------------------------------------------------------------ C10
\* C10: a call owns at most one mutex and, while it owns one, its next step
\* never waits; every call that has been invoked returns, whatever the other
\* caller does, when the library calls return and the mutex is granted
\* fairly.
C10_EveryCallReturns ==
    /\ [](\A c \in PairCalls :
            /\ Cardinality({h \in Handles : holder[h] = c}) <= 1
            /\ (\E h \in Handles : holder[h] = c) =>
                  /\ pc[c] \in {"lockerr", "held", "io"}
                  /\ ENABLED Step(c))
    /\ \A c \in PairCalls : (pc[c] \in InFlight) ~> (pc[c] = "done")

\* with two handles open, a call waits in lock() for the other caller, which
\* is inside a read on the same handle
C10_Witness ==
    \E c \in PairCalls, d \in PairCalls :
        /\ Cardinality(OpenHandles) > 1
        /\ pc[c] = "lock"
        /\ holder[req[c].res] = d
        /\ pc[d] = "io"

====
